---- MODULE Spec2Model ----
(***************************************************************************)
(* elm-vendor: the semantic-version domain, the version/range parser, the  *)
(* fail-soft aggregator, dependency reconciliation and the vendor run.     *)
(***************************************************************************)
EXTENDS Integers, Sequences, FiniteSets, TLC

VARIABLES dom, prs, twp, col, run, ini
vars == <<dom, prs, twp, col, run, ini>>

(***************************************************************************)
(* Bounds                                                                  *)
(***************************************************************************)
\* the greatest value of a version component (u64::MAX scaled down)
MaxU == 2

\* Option<T>: None is the empty sequence, Some(x) the one-element sequence
None == <<>>
Some(x) == <<x>>
IsSome(o) == Len(o) = 1
Unwrap(o) == o[1]

(***************************************************************************)
(* version.rs: SemVer and impl Domain for SemVer                           *)
(***************************************************************************)
Modulus == MaxU + 1

\* unsigned machine arithmetic of the component width
WrappingSub(a, b) == (a - b + Modulus) % Modulus
WrappingAdd(a, b) == (a + b) % Modulus

SemVer(ma, mi, pa) == [major |-> ma, minor |-> mi, patch |-> pa]

SemVers == [major : 0..MaxU, minor : 0..MaxU, patch : 0..MaxU]

\* derive(PartialOrd, Ord): lexicographic in field order major, minor, patch
SemVerLt(a, b) ==
    \/ a.major < b.major
    \/ a.major = b.major /\ a.minor < b.minor
    \/ a.major = b.major /\ a.minor = b.minor /\ a.patch < b.patch

SemVerLe(a, b) == a = b \/ SemVerLt(a, b)

minimum == SemVer(0, 0, 0)
maximum == SemVer(MaxU, MaxU, MaxU)

\* a predecessor whose first guard was dropped: the patch is always decremented
predecessor_noguard(self) ==
    Some(SemVer(self.major, self.minor, WrappingSub(self.patch, 1)))

\* a predecessor that borrows from minor without setting the patch to MAX
predecessor_noborrow(self) ==
    IF self.patch # 0
    THEN Some(SemVer(self.major, self.minor, WrappingSub(self.patch, 1)))
    ELSE IF self.minor # 0
    THEN Some(SemVer(self.major, WrappingSub(self.minor, 1), 0))
    ELSE IF self.major # 0
    THEN Some(SemVer(WrappingSub(self.major, 1), MaxU, MaxU))
    ELSE None

predecessor(self) ==
    IF self.patch # 0
    THEN Some(SemVer(self.major, self.minor, WrappingSub(self.patch, 1)))
    ELSE IF self.minor # 0
    THEN Some(SemVer(self.major, WrappingSub(self.minor, 1), MaxU))
    ELSE IF self.major # 0
    THEN Some(SemVer(WrappingSub(self.major, 1), MaxU, MaxU))
    ELSE None

\* a successor that carries into minor without resetting the patch
successor_nocarry(self) ==
    IF self.patch # MaxU
    THEN Some(SemVer(self.major, self.minor, WrappingAdd(self.patch, 1)))
    ELSE IF self.minor # MaxU
    THEN Some(SemVer(self.major, WrappingAdd(self.minor, 1), self.patch))
    ELSE IF self.major # MaxU
    THEN Some(SemVer(WrappingAdd(self.major, 1), 0, 0))
    ELSE None

successor(self) ==
    IF self.patch # MaxU
    THEN Some(SemVer(self.major, self.minor, WrappingAdd(self.patch, 1)))
    ELSE IF self.minor # MaxU
    THEN Some(SemVer(self.major, WrappingAdd(self.minor, 1), 0))
    ELSE IF self.major # MaxU
    THEN Some(SemVer(WrappingAdd(self.major, 1), 0, 0))
    ELSE None

(***************************************************************************)
(* The domain machine: a version, the last stepping call and its result    *)
(***************************************************************************)
DomIdle == [v |-> minimum, op |-> "idle", res |-> None, back |-> None]

DomInit == dom \in [v : SemVers, op : {"init"}, res : {None}, back : {None}]

Predecessor ==
    /\ dom.op = "init"
    /\ dom' = [dom EXCEPT !.op = "predecessor", !.res = predecessor(dom.v)]
    /\ UNCHANGED <<prs, twp, col, run, ini>>

Successor ==
    /\ dom.op = "init"
    /\ dom' = [dom EXCEPT !.op = "successor", !.res = successor(dom.v)]
    /\ UNCHANGED <<prs, twp, col, run, ini>>

\* successor(predecessor(v))
SuccessorOfPredecessor ==
    /\ dom.op = "predecessor"
    /\ IsSome(dom.res)
    /\ dom' = [dom EXCEPT !.op = "successor_of_predecessor",
                          !.back = successor(Unwrap(dom.res))]
    /\ UNCHANGED <<prs, twp, col, run, ini>>

\* predecessor(successor(v))
PredecessorOfSuccessor ==
    /\ dom.op = "successor"
    /\ IsSome(dom.res)
    /\ dom' = [dom EXCEPT !.op = "predecessor_of_successor",
                          !.back = predecessor(Unwrap(dom.res))]
    /\ UNCHANGED <<prs, twp, col, run, ini>>

(***************************************************************************)
(* utils.rs: TryWithProgress::try_with_progress                            *)
(***************************************************************************)
\* the longest item sequence handed to try_with_progress on its own
MaxItems == 5
\* the number of different item values
MaxItemKinds == 2

\* Result<T, E>
Ok(x) == [ok |-> TRUE, val |-> x]
Err(e) == [ok |-> FALSE, val |-> e]

\* let mut errs = Vec::new(); let mut goods = Vec::new();
TwpNew == [goods |-> <<>>, errs |-> <<>>]

\* the match on (f)(item) that loses the successes pushed before
TwpPush_keeplast(acc, r) ==
    IF r.ok
    THEN [acc EXCEPT !.goods = <<r.val>>]
    ELSE [acc EXCEPT !.errs = Append(acc.errs, r.val)]

\* the match on (f)(item): a success goes to goods, a failure to errs
TwpPush(acc, r) ==
    IF r.ok
    THEN [acc EXCEPT !.goods = Append(acc.goods, r.val)]
    ELSE [acc EXCEPT !.errs = Append(acc.errs, r.val)]

\* a loop that stops at the first failure, as impl FromIterator for Result does
TwpHasNext_shortcircuit(items, i, acc) == i <= Len(items) /\ acc.errs = <<>>

\* for item in self.into_iter(): the loop runs while items are left
TwpHasNext(items, i, acc) == i <= Len(items)

\* if errs.is_empty() { Ok(goods) } else { Err(errs) }
TwpFinish(acc) == IF acc.errs = <<>> THEN Ok(acc.goods) ELSE Err(acc.errs)

(***************************************************************************)
(* The aggregator machine: try_with_progress over a sequence of items with *)
(* a per-item operation whose outcome is chosen when it is called          *)
(***************************************************************************)
TwpItems == 1..MaxItemKinds

TwpIdle == [items |-> <<>>, i |-> 0, acc |-> TwpNew, calls |-> <<>>, ret |-> None]

TwpInit ==
    \E n \in 0..MaxItems :
        \E its \in [1..n -> TwpItems] :
            twp = [items |-> its, i |-> 1, acc |-> TwpNew, calls |-> <<>>, ret |-> None]

\* one iteration of the for loop: f is called on the next item
TwpCall ==
    /\ twp.i >= 1
    /\ twp.ret = None
    /\ TwpHasNext(twp.items, twp.i, twp.acc)
    /\ \E ok \in BOOLEAN :
        LET item == twp.items[twp.i]
            r == IF ok THEN Ok(<<"u", item>>) ELSE Err(<<"e", item>>)
        IN twp' = [twp EXCEPT !.i = twp.i + 1,
                              !.acc = TwpPush(twp.acc, r),
                              !.calls = Append(twp.calls, [item |-> item, at |-> twp.i, ok |-> ok])]
    /\ UNCHANGED <<dom, prs, col, run, ini>>

\* the loop is over: the result is returned
TwpReturn ==
    /\ twp.i >= 1
    /\ twp.ret = None
    /\ ~TwpHasNext(twp.items, twp.i, twp.acc)
    /\ twp' = [twp EXCEPT !.ret = Some(TwpFinish(twp.acc))]
    /\ UNCHANGED <<dom, prs, col, run, ini>>

(***************************************************************************)
(* version.rs: Relation, VersionRange, DependencyVersion and their Display *)
(***************************************************************************)
Relations == {"LTE", "LT"}

VersionRange(lower, lower_relation, higher_relation, higher) ==
    [lower |-> lower, lower_relation |-> lower_relation,
     higher_relation |-> higher_relation, higher |-> higher]

SpecificVersionOf(v) == [kind |-> "SpecificVersion", ver |-> v]
VersionRangeOf(r) == [kind |-> "VersionRange", range |-> r]

\* a text is a sequence of one-character strings
DigitChars == <<"0", "1", "2", "3", "4", "5", "6", "7", "8", "9">>
IsDigit == {DigitChars[i] : i \in 1..Len(DigitChars)}
DigitValue(c) == (CHOOSE i \in 1..Len(DigitChars) : DigitChars[i] = c) - 1

\* the decimal digits of an unsigned number, as {} formats it
RECURSIVE DisplayU64(_)
DisplayU64(n) ==
    IF n < 10 THEN <<DigitChars[n + 1]>>
    ELSE DisplayU64(n \div 10) \o <<DigitChars[(n % 10) + 1]>>

\* write!(f, "{}.{}.{}", self.major, self.minor, self.patch)
DisplaySemVer(v) ==
    DisplayU64(v.major) \o <<".">> \o DisplayU64(v.minor) \o <<".">> \o DisplayU64(v.patch)

DisplayRelation(r) == IF r = "LTE" THEN <<"<", "=">> ELSE <<"<">>

\* write!(f, "{} {} v {} {}", lower, lower_relation, higher_relation, higher)
DisplayVersionRange(r) ==
    DisplaySemVer(r.lower) \o <<" ">> \o DisplayRelation(r.lower_relation)
        \o <<" ", "v", " ">> \o DisplayRelation(r.higher_relation) \o <<" ">>
        \o DisplaySemVer(r.higher)

DisplayDependencyVersion(d) ==
    IF d.kind = "SpecificVersion" THEN DisplaySemVer(d.ver)
    ELSE DisplayVersionRange(d.range)

(***************************************************************************)
(* version.rs: the nom parsers                                             *)
(***************************************************************************)
Take(s, n) == SubSeq(s, 1, n)
Drop(s, n) == SubSeq(s, n + 1, Len(s))

\* IResult<&str, O>: the rest of the input and the output, or an error
POk(rest, val) == [ok |-> TRUE, rest |-> rest, val |-> val]
PErr == [ok |-> FALSE, rest |-> <<>>, val |-> <<>>]

RECURSIVE CountWhile(_, _)
\* the length of the longest prefix of input whose characters are in the set P
CountWhile(P, input) ==
    IF input # <<>> /\ input[1] \in P THEN 1 + CountWhile(P, Tail(input)) ELSE 0

IsSpace == {" ", "\t"}

\* nom::character::complete::space0: zero or more spaces and tabs
space0(input) ==
    LET n == CountWhile(IsSpace, input) IN POk(Drop(input, n), Take(input, n))

\* nom::character::complete::digit1: one or more digits
digit1(input) ==
    LET n == CountWhile(IsDigit, input)
    IN IF n = 0 THEN PErr ELSE POk(Drop(input, n), Take(input, n))

\* nom::bytes::complete::tag
tag(t, input) ==
    IF Len(input) >= Len(t) /\ Take(input, Len(t)) = t
    THEN POk(Drop(input, Len(t)), t)
    ELSE PErr

RECURSIVE DecimalValue(_)
DecimalValue(digits) ==
    IF digits = <<>> THEN 0
    ELSE 10 * DecimalValue(Take(digits, Len(digits) - 1)) + DigitValue(digits[Len(digits)])

\* map_res(digit1, u64::from_str): a number that does not fit is an error
u64(input) ==
    LET map_res(d) ==
            IF ~d.ok THEN PErr
            ELSE IF DecimalValue(d.val) > MaxU THEN PErr
            ELSE POk(d.rest, DecimalValue(d.val))
    IN map_res(digit1(input))

\* tuple((u64, tag("."), u64, tag("."), u64)): each parser runs on what the
\* one before it left, and the first failure fails the tuple
semver(input) ==
    LET after_patch(major, minor, patch) ==
            IF ~patch.ok THEN PErr
            ELSE POk(patch.rest, SemVer(major.val, minor.val, patch.val))
        after_dot2(major, minor, dot2) ==
            IF ~dot2.ok THEN PErr ELSE after_patch(major, minor, u64(dot2.rest))
        after_minor(major, minor) ==
            IF ~minor.ok THEN PErr ELSE after_dot2(major, minor, tag(<<".">>, minor.rest))
        after_dot1(major, dot1) ==
            IF ~dot1.ok THEN PErr ELSE after_minor(major, u64(dot1.rest))
        after_major(major) ==
            IF ~major.ok THEN PErr ELSE after_dot1(major, tag(<<".">>, major.rest))
    IN after_major(u64(input))

\* alt((lt, lte)): lt is tried first, lte only when lt fails
relation(input) ==
    LET alt(lt, lte) ==
            IF lt.ok THEN POk(lt.rest, "LT")
            ELSE IF lte.ok THEN POk(lte.rest, "LTE")
            ELSE PErr
    IN alt(tag(<<"<">>, input), tag(<<"<", "=">>, input))

version_variable(input) ==
    LET value(v) == IF v.ok THEN POk(v.rest, <<>>) ELSE PErr
    IN value(tag(<<"v">>, input))

\* delimited(space0, inner, space0); inner names the parser that ws wraps
ws(inner, input) ==
    LET delimited(stripped) ==
            CASE inner = "semver" -> semver(stripped)
              [] inner = "relation" -> relation(stripped)
              [] inner = "version_variable" -> version_variable(stripped)
        trailing(r) == IF r.ok THEN POk(space0(r.rest).rest, r.val) ELSE PErr
    IN trailing(delimited(space0(input).rest))

\* tuple((ws(semver), ws(relation), ws(version_variable), ws(relation), ws(semver)))
version_range(input) ==
    LET after_higher(lower, lower_relation, higher_relation, higher) ==
            IF ~higher.ok THEN PErr
            ELSE POk(higher.rest,
                     VersionRange(lower.val, lower_relation.val,
                                  higher_relation.val, higher.val))
        after_higher_relation(lower, lower_relation, higher_relation) ==
            IF ~higher_relation.ok THEN PErr
            ELSE after_higher(lower, lower_relation, higher_relation,
                              ws("semver", higher_relation.rest))
        after_v(lower, lower_relation, v) ==
            IF ~v.ok THEN PErr
            ELSE after_higher_relation(lower, lower_relation, ws("relation", v.rest))
        after_lower_relation(lower, lower_relation) ==
            IF ~lower_relation.ok THEN PErr
            ELSE after_v(lower, lower_relation,
                         ws("version_variable", lower_relation.rest))
        after_lower(lower) ==
            IF ~lower.ok THEN PErr
            ELSE after_lower_relation(lower, ws("relation", lower.rest))
    IN after_lower(ws("semver", input))

\* alt((range, semver))
version(input) ==
    LET alt(range, single) ==
            IF range.ok THEN POk(range.rest, VersionRangeOf(range.val))
            ELSE IF single.ok THEN POk(single.rest, SpecificVersionOf(single.val))
            ELSE PErr
    IN alt(version_range(input), semver(input))

\* utils.rs NomFinalize::finalize: finish().map(discard_input).map_err(own_nom_err)
finalize(r) == IF r.ok THEN Ok(r.val) ELSE Err("ParseError")

\* impl FromStr for DependencyVersion
DependencyVersionFromStr(str) == finalize(version(str))

(***************************************************************************)
(* The parser machine: a text written after the grammar of version.rs is   *)
(* parsed, the result displayed and the displayed text parsed again        *)
(***************************************************************************)
\* numbers of spaces written before the first token and between two tokens
LeadChoices == {0, 1}
GapChoices == {0, 1}
\* numbers of leading zeros written before each number
ZeroChoices == {0, 1}
\* what is written after the last token
TailChoices == {<<>>, <<"x">>}

RECURSIVE Repeat(_, _)
Repeat(c, n) == IF n = 0 THEN <<>> ELSE <<c>> \o Repeat(c, n - 1)

WrittenUint(n, zeros) == Repeat("0", zeros) \o DisplayU64(n)

WrittenSemVer(v, zeros) ==
    WrittenUint(v.major, zeros) \o <<".">> \o WrittenUint(v.minor, zeros)
        \o <<".">> \o WrittenUint(v.patch, zeros)

\* the tokens of the grammar: "<" is strictly-less, "<=" is less-or-equal
WrittenRelation(r) == IF r = "LTE" THEN <<"<", "=">> ELSE <<"<">>

\* what the writer of a text meant
Written ==
    [kind : {"version"}, lower : SemVers, lower_relation : {"LT"},
     higher_relation : {"LT"}, higher : {minimum},
     lead : {0}, gap : {0}, zeros : ZeroChoices, tail : TailChoices]
    \cup
    [kind : {"range"}, lower : SemVers, lower_relation : Relations,
     higher_relation : Relations, higher : SemVers,
     lead : LeadChoices, gap : GapChoices, zeros : ZeroChoices, tail : TailChoices]

WrittenText(w) ==
    IF w.kind = "version"
    THEN WrittenSemVer(w.lower, w.zeros) \o w.tail
    ELSE Repeat(" ", w.lead) \o WrittenSemVer(w.lower, w.zeros)
         \o Repeat(" ", w.gap) \o WrittenRelation(w.lower_relation)
         \o Repeat(" ", w.gap) \o <<"v">>
         \o Repeat(" ", w.gap) \o WrittenRelation(w.higher_relation)
         \o Repeat(" ", w.gap) \o WrittenSemVer(w.higher, w.zeros) \o w.tail

PrsIdle == [st |-> "idle", written |-> <<>>, text |-> <<>>,
            first |-> None, shown |-> <<>>, second |-> None]

PrsInit ==
    \E w \in Written :
        prs = [st |-> "text", written |-> w, text |-> WrittenText(w),
               first |-> None, shown |-> <<>>, second |-> None]

\* text.parse::<DependencyVersion>()
Parse ==
    /\ prs.st = "text"
    /\ prs' = [prs EXCEPT !.st = "parsed",
                          !.first = Some(DependencyVersionFromStr(prs.text))]
    /\ UNCHANGED <<dom, twp, col, run, ini>>

\* the parsed constraint is displayed
Display ==
    /\ prs.st = "parsed"
    /\ Unwrap(prs.first).ok
    /\ prs' = [prs EXCEPT !.st = "shown",
                          !.shown = DisplayDependencyVersion(Unwrap(prs.first).val)]
    /\ UNCHANGED <<dom, twp, col, run, ini>>

\* the displayed text is parsed
Reparse ==
    /\ prs.st = "shown"
    /\ prs' = [prs EXCEPT !.st = "reparsed",
                          !.second = Some(DependencyVersionFromStr(prs.shown))]
    /\ UNCHANGED <<dom, twp, col, run, ini>>

(***************************************************************************)
(* Intervals over the version domain: GenericRange<SemVer> and             *)
(* Ranges<SemVer> of the ranges crate, as version.rs and vendoring.rs use  *)
(* them with the discrete Domain that SemVer implements.  The crate is a   *)
(* dependency whose source is not part of the repository: its operators    *)
(* follow its documented behaviour (new_with_bounds asserts start <= end,  *)
(* bounds are stored as given, is_empty and is_singleton count the         *)
(* versions of a discrete domain, inserted ranges that overlap or touch    *)
(* are merged)                                                             *)
(***************************************************************************)
Included(v) == [kind |-> "Included", val |-> v]
Excluded(v) == [kind |-> "Excluded", val |-> v]

GenericRange(start, end) == [start |-> start, end |-> end]

\* what a call gives: a value, or a panic that unwinds the caller
Returned(x) == [panicked |-> FALSE, val |-> x]
Panicked(msg) == [panicked |-> TRUE, val |-> msg]

\* GenericRange::new_with_bounds: it is asserted that start <= end
new_with_bounds(start, end) ==
    IF SemVerLt(end.val, start.val)
    THEN Panicked("start <= end")
    ELSE Returned(GenericRange(start, end))

\* GenericRange::singleton
singleton(v) == new_with_bounds(Included(v), Included(v))

\* Domain::is_next_to, by the successor of SemVer
is_next_to(a, b) == successor(a) = Some(b) \/ successor(b) = Some(a)

\* Domain::shares_neighbour_with: exactly one version lies between the two
shares_neighbour_with(a, b) ==
    \/ IsSome(successor(a)) /\ successor(Unwrap(successor(a))) = Some(b)
    \/ IsSome(successor(b)) /\ successor(Unwrap(successor(b))) = Some(a)

\* GenericRange::is_empty in a discrete domain
is_empty(range) ==
    LET s == range.start
        e == range.end
    IN IF s.kind = "Included" /\ e.kind = "Included" THEN SemVerLt(e.val, s.val)
       ELSE IF s.kind = "Excluded" /\ e.kind = "Excluded"
       THEN SemVerLe(e.val, s.val) \/ is_next_to(s.val, e.val)
       ELSE SemVerLe(e.val, s.val)

\* GenericRange::is_singleton in a discrete domain
is_singleton(range) ==
    LET s == range.start
        e == range.end
    IN IF s.kind = "Included" /\ e.kind = "Included" THEN s.val = e.val
       ELSE IF s.kind = "Excluded" /\ e.kind = "Excluded"
       THEN SemVerLt(s.val, e.val) /\ shares_neighbour_with(s.val, e.val)
       ELSE SemVerLt(s.val, e.val) /\ is_next_to(s.val, e.val)

\* the least and the greatest version of a range that is not empty
RangeFirst(range) ==
    IF range.start.kind = "Included" THEN range.start.val
    ELSE Unwrap(successor(range.start.val))
RangeLast(range) ==
    IF range.end.kind = "Included" THEN range.end.val
    ELSE Unwrap(predecessor(range.end.val))

\* two ranges that neither overlap nor touch: a version lies between them
Separated(a, b) ==
    \/ SemVerLt(RangeLast(a), RangeFirst(b)) /\ successor(RangeLast(a)) # Some(RangeFirst(b))
    \/ SemVerLt(RangeLast(b), RangeFirst(a)) /\ successor(RangeLast(b)) # Some(RangeFirst(a))

\* the order of start bounds and of end bounds
StartLe(s, t) ==
    SemVerLt(s.val, t.val) \/ (s.val = t.val /\ (s.kind = "Included" \/ t.kind = "Excluded"))
EndLe(e, f) ==
    SemVerLt(e.val, f.val) \/ (e.val = f.val /\ (e.kind = "Excluded" \/ f.kind = "Included"))

\* the union of two ranges that overlap or touch
Hull(a, b) ==
    GenericRange(IF StartLe(a.start, b.start) THEN a.start ELSE b.start,
                 IF EndLe(a.end, b.end) THEN b.end ELSE a.end)

\* an insert that keeps touching ranges apart and merges only overlapping ones
RECURSIVE RangesInsert_overlaponly(_, _)
RangesInsert_overlaponly(set, range) ==
    IF is_empty(range) THEN set
    ELSE IF \E x \in set : ~SemVerLt(RangeLast(x), RangeFirst(range))
                           /\ ~SemVerLt(RangeLast(range), RangeFirst(x))
    THEN LET x == CHOOSE x \in set : ~SemVerLt(RangeLast(x), RangeFirst(range))
                                     /\ ~SemVerLt(RangeLast(range), RangeFirst(x))
         IN RangesInsert_overlaponly(set \ {x}, Hull(x, range))
    ELSE set \cup {range}

\* Ranges::insert: an empty range is dropped, a range that overlaps or touches
\* stored ranges is merged with them until nothing more merges
RECURSIVE RangesInsert(_, _)
RangesInsert(set, range) ==
    IF is_empty(range) THEN set
    ELSE IF \E x \in set : ~Separated(x, range)
    THEN LET x == CHOOSE x \in set : ~Separated(x, range)
         IN RangesInsert(set \ {x}, Hull(x, range))
    ELSE set \cup {range}

\* impl FromIterator for Ranges: the ranges are inserted one by one
RECURSIVE RangesCollect(_, _)
RangesCollect(set, ranges) ==
    IF ranges = <<>> THEN set
    ELSE RangesCollect(RangesInsert(set, Head(ranges)), Tail(ranges))

\* Ranges::as_slice: the stored ranges in ascending order
RECURSIVE as_slice(_)
as_slice(set) ==
    IF set = {} THEN <<>>
    ELSE LET least == CHOOSE x \in set : \A y \in set : SemVerLe(RangeFirst(x), RangeFirst(y))
         IN <<least>> \o as_slice(set \ {least})

(***************************************************************************)
(* version.rs: conversions between constraints and intervals               *)
(***************************************************************************)
\* impl RangeBounds<SemVer> for VersionRange
start_bound(r) == IF r.lower_relation = "LTE" THEN Included(r.lower) ELSE Excluded(r.lower)
end_bound(r) == IF r.higher_relation = "LTE" THEN Included(r.higher) ELSE Excluded(r.higher)

\* impl Into<GenericRange<SemVer>> for &VersionRange
VersionRangeInto(r) == new_with_bounds(start_bound(r), end_bound(r))

\* impl Into<GenericRange<SemVer>> for &DependencyVersion
DependencyVersionInto(d) ==
    IF d.kind = "SpecificVersion" THEN singleton(d.ver) ELSE VersionRangeInto(d.range)

\* impl From<GenericRange<SemVer>> for VersionRange
VersionRangeFrom(range) ==
    VersionRange(range.start.val,
                 IF range.start.kind = "Included" THEN "LTE" ELSE "LT",
                 IF range.end.kind = "Included" THEN "LTE" ELSE "LT",
                 range.end.val)

\* impl TryFrom<GenericRange<SemVer>> for DependencyVersion
DependencyVersionTryFrom(range) ==
    IF is_singleton(range)
    THEN IF range.start.kind = "Included"
         THEN Returned(Ok(SpecificVersionOf(range.start.val)))
         ELSE Panicked("unreachable")
    ELSE IF is_empty(range)
    THEN Returned(Err(<<>>))
    ELSE Returned(Ok(VersionRangeOf(VersionRangeFrom(range))))

(***************************************************************************)
(* vendoring.rs: collapse_sources                                          *)
(***************************************************************************)
\* sources.values().map(|version| version.conv::<GenericRange<SemVer>>()),
\* in the order the map is iterated in
SourceRanges(sources, order) ==
    [k \in 1..Len(order) |-> DependencyVersionInto(sources[order[k]])]

\* a collapse that takes the first interval whenever there is one
collapse_sources_first(sources, order) ==
    LET conv == SourceRanges(sources, order) IN
    IF \E k \in 1..Len(conv) : conv[k].panicked
    THEN Panicked("start <= end")
    ELSE
    LET range_slice == as_slice(RangesCollect({}, [k \in 1..Len(conv) |-> conv[k].val]))
    IN IF Len(range_slice) = 0
       THEN Returned(Err(sources))
       ELSE LET back == DependencyVersionTryFrom(range_slice[1])
            IN IF back.panicked THEN back
               ELSE IF ~back.val.ok THEN Panicked("unwrap")
               ELSE Returned(Ok(back.val.val))

\* a union that merges a range into the last stored range only
RECURSIVE SequentialUnion(_, _)
SequentialUnion(slice, ranges) ==
    IF ranges = <<>> THEN slice
    ELSE IF is_empty(Head(ranges)) THEN SequentialUnion(slice, Tail(ranges))
    ELSE IF slice # <<>> /\ ~Separated(slice[Len(slice)], Head(ranges))
    THEN SequentialUnion([slice EXCEPT ![Len(slice)] = Hull(slice[Len(slice)], Head(ranges))],
                         Tail(ranges))
    ELSE SequentialUnion(Append(slice, Head(ranges)), Tail(ranges))

\* a collapse that merges the sources one after the other, each into the
\* interval before it
collapse_sources_sequential(sources, order) ==
    LET conv == SourceRanges(sources, order) IN
    IF \E k \in 1..Len(conv) : conv[k].panicked
    THEN Panicked("start <= end")
    ELSE
    LET range_slice == SequentialUnion(<<>>, [k \in 1..Len(conv) |-> conv[k].val])
    IN IF Len(range_slice) # 1
       THEN Returned(Err(sources))
       ELSE LET back == DependencyVersionTryFrom(range_slice[1])
            IN IF back.panicked THEN back
               ELSE IF ~back.val.ok THEN Panicked("unwrap")
               ELSE Returned(Ok(back.val.val))

\* collapse_sources: the result, or the panic of a conversion
collapse_sources(sources, order) ==
    LET conv == SourceRanges(sources, order) IN
    IF \E k \in 1..Len(conv) : conv[k].panicked
    THEN Panicked("start <= end")
    ELSE
    LET range_slice == as_slice(RangesCollect({}, [k \in 1..Len(conv) |-> conv[k].val]))
    IN IF Len(range_slice) # 1
       THEN Returned(Err(sources))
       ELSE LET back == DependencyVersionTryFrom(range_slice[1])
            IN IF back.panicked THEN back
               ELSE IF ~back.val.ok THEN Panicked("unwrap")
               ELSE Returned(Ok(back.val.val))

(***************************************************************************)
(* The reconciliation machine: collapse_sources on one dependency group    *)
(***************************************************************************)
\* the versions of groups of one or two sources: the MaxLowRank + 1 least
\* versions and the two greatest
MaxLowRank == 3
\* the versions of groups of three sources: the MaxNarrowRank + 1 least
MaxNarrowRank == 2

Rank(v) == (v.major * Modulus + v.minor) * Modulus + v.patch

WidePool == {v \in SemVers : Rank(v) <= MaxLowRank \/ Rank(v) >= Rank(maximum) - 1}
NarrowPool == {v \in SemVers : Rank(v) <= MaxNarrowRank}

\* every DependencyVersion over a set of versions
ConstraintsOver(pool) ==
    {SpecificVersionOf(v) : v \in pool}
    \cup {VersionRangeOf(r) :
            r \in [lower : pool, lower_relation : Relations,
                   higher_relation : Relations, higher : pool]}

MainSource == "main package (elm-vendor.json)"
SourceNames == <<MainSource, "a", "b">>

\* VersionsWithSources: a map from source to constraint
Groups ==
    UNION {[{SourceNames[k] : k \in 1..n} ->
                ConstraintsOver(IF n < 3 THEN WidePool ELSE NarrowPool)] :
           n \in 1..Len(SourceNames)}

\* the orders in which a map with these keys can be iterated
Orderings(keys) ==
    {o \in [1..Cardinality(keys) -> keys] : \A i, j \in DOMAIN o : o[i] = o[j] => i = j}

ColIdle == [st |-> "idle", sources |-> <<>>, ret |-> None]

ColInit == \E g \in Groups : col = [st |-> "group", sources |-> g, ret |-> None]

\* collapse_sources(sources)
Collapse ==
    /\ col.st = "group"
    /\ \E order \in Orderings(DOMAIN col.sources) :
        col' = [col EXCEPT !.st = "collapsed",
                           !.ret = Some(collapse_sources(col.sources, order))]
    /\ UNCHANGED <<dom, prs, twp, run, ini>>

(***************************************************************************)
(* shared.rs, lib.rs and vendoring.rs: the files a vendor run reads        *)
(***************************************************************************)
\* impl FromStr for SemVer
SemVerFromStr(str) == finalize(semver(str))

DepNames == {"x", "y"}
\* the entries of a vendored list: an entry is any string that names a
\* directory, also the one the main package's constraints are filed under
Packages == {"p", MainSource}
\* the longest vendored list of a descriptor
MaxVendored == 2

\* the constraint literals found in the files
Text001 == <<"0", ".", "0", ".", "1">>
Text100 == <<"1", ".", "0", ".", "0">>
Text000to010 ==
    <<"0", ".", "0", ".", "0", " ", "<", " ", "v", " ", "<", " ", "0", ".", "1", ".", "0">>
Text000to002 ==
    <<"0", ".", "0", ".", "0", " ", "<", " ", "v", " ", "<", " ", "0", ".", "0", ".", "2">>
\* those of the descriptor, of application manifests and of package manifests
MainTexts == {Text001, Text000to010}
ApplicationTexts == {Text100}
PackageTexts == {Text001, Text100, Text000to002}
\* those of the elm.json of a package that init is run on
Text100to200 ==
    <<"1", ".", "0", ".", "0", " ", "<", "=", " ", "v", " ", "<", " ", "2", ".", "0", ".", "0">>
InitPackageTexts == {Text100, Text000to002, Text100to200}
ConstraintTexts == MainTexts \cup ApplicationTexts \cup PackageTexts \cup InitPackageTexts

\* the literals as serde parses them, once for all files
SemVerOfText == [t \in ConstraintTexts |-> SemVerFromStr(t)]
DependencyVersionOfText == [t \in ConstraintTexts |-> DependencyVersionFromStr(t)]

\* a map from some dependency names to literals
DepMaps(texts) == UNION {[names -> texts] : names \in SUBSET DepNames}

\* the elm.json of a package directory: absent, unreadable, not an ElmJson,
\* or an ElmJson of application or package kind
NoManifest(state) ==
    [state |-> state, kind |-> "package", deps |-> <<>>, source_dirs |-> <<>>,
     other_fields |-> <<>>]
Manifests ==
    {NoManifest("NotFound"), NoManifest("IoError"), NoManifest("Invalid")}
    \cup [state : {"Ok"}, kind : {"application"}, deps : DepMaps(ApplicationTexts),
          source_dirs : {<<"src">>}, other_fields : {<<>>}]
    \cup [state : {"Ok"}, kind : {"package"}, deps : DepMaps(PackageTexts),
          source_dirs : {<<"src">>}, other_fields : {<<>>}]

\* serde: every literal of the dependencies is parsed, a SemVer for an
\* application and a DependencyVersion for a package
ParsedDeps(kind, deps) ==
    [d \in DOMAIN deps |->
        IF kind = "application"
        THEN LET v == SemVerOfText[deps[d]]
             IN IF v.ok THEN Ok(SpecificVersionOf(v.val)) ELSE v
        ELSE DependencyVersionOfText[deps[d]]]

\* serde_json::from_reader::<ElmJson>: the file with its literals parsed
ElmJson(manifest) ==
    [kind |-> manifest.kind, source_dirs |-> manifest.source_dirs,
     dependencies |-> ParsedDeps(manifest.kind, manifest.deps),
     other_fields |-> manifest.other_fields]

\* impl From<ElmJson> for NormalizedElmJson
NormalizedElmJson(json) ==
    [kind |-> json.kind, source_dirs |-> json.source_dirs,
     dependencies |-> [d \in DOMAIN json.dependencies |-> json.dependencies[d].val],
     other_fields |-> json.other_fields]

NoElmJsonFound(package) == [kind |-> "NoElmJsonFound", name |-> package]
IoError(package) == [kind |-> "IoError", name |-> package]
SerdeError(package) == [kind |-> "SerdeError", name |-> package]
ConflictingDependency(dependency, versions) ==
    [kind |-> "ConflictingDependency", name |-> dependency, versions |-> versions]

\* a load that reports a missing elm.json as an IO error
load_package_for_ioerror(manifest, package) ==
    LET from_reader(json) ==
            IF \E d \in DOMAIN json.dependencies : ~json.dependencies[d].ok
            THEN Err(SerdeError(package))
            ELSE Ok(NormalizedElmJson(json))
    IN IF manifest.state = "NotFound" THEN Err(IoError(package))
       ELSE IF manifest.state = "IoError" THEN Err(IoError(package))
       ELSE IF manifest.state = "Invalid" THEN Err(SerdeError(package))
       ELSE from_reader(ElmJson(manifest))

\* CmdContext::load_package_for
load_package_for(manifest, package) ==
    LET from_reader(json) ==
            IF \E d \in DOMAIN json.dependencies : ~json.dependencies[d].ok
            THEN Err(SerdeError(package))
            ELSE Ok(NormalizedElmJson(json))
    IN IF manifest.state = "NotFound" THEN Err(NoElmJsonFound(package))
       ELSE IF manifest.state = "IoError" THEN Err(IoError(package))
       ELSE IF manifest.state = "Invalid" THEN Err(SerdeError(package))
       ELSE from_reader(ElmJson(manifest))

\* NormalizedElmJson::contextualize_source_dirs: name.join(source_dir)
contextualize_source_dirs(json, name) ==
    [k \in 1..Len(json.source_dirs) |-> <<name, json.source_dirs[k]>>]

\* NormalizedElmJson::dependencies_with_source_name; the Vec is kept as the
\* set of its elements, which are iterated in any order
dependencies_with_source_name(json, package) ==
    {[source |-> package, dependency |-> d, version |-> json.dependencies[d]] :
        d \in DOMAIN json.dependencies}

\* deps_with_sources.entry(dependency).or_default().insert(source, version)
CoalesceOne(deps_with_sources, dep) ==
    LET old == IF dep.dependency \in DOMAIN deps_with_sources
               THEN deps_with_sources[dep.dependency] ELSE <<>>
        new == [s \in DOMAIN old \cup {dep.source} |->
                    IF s = dep.source THEN dep.version ELSE old[s]]
    IN [d \in DOMAIN deps_with_sources \cup {dep.dependency} |->
            IF d = dep.dependency THEN new ELSE deps_with_sources[d]]

\* coalesce_dependencies: the dependencies are folded into the map; those
\* of one package have different names, so their order changes nothing
RECURSIVE coalesce_dependencies(_, _)
coalesce_dependencies(dependencies, deps_with_sources) ==
    IF dependencies = {} THEN deps_with_sources
    ELSE LET dep == CHOOSE dep \in dependencies : TRUE
         IN coalesce_dependencies(dependencies \ {dep},
                                  CoalesceOne(deps_with_sources, dep))

\* lib.rs is_elm_vendor_config_file_name
DescriptorFileNames == {"elm-vendor.json", "elm-vendor.toml"}

\* a search that takes any of several descriptor files
find_elm_vendor_json_any(files) ==
    LET elm_vendor_files == files \cap DescriptorFileNames
    IN IF Cardinality(elm_vendor_files) = 0 THEN Ok(None)
       ELSE Ok(Some(CHOOSE f \in elm_vendor_files : TRUE))

\* CmdContext::find_elm_vendor_json over the names found in the root
find_elm_vendor_json(files) ==
    LET elm_vendor_files == files \cap DescriptorFileNames
    IN IF Cardinality(elm_vendor_files) = 1
       THEN Ok(Some(CHOOSE f \in elm_vendor_files : TRUE))
       ELSE IF Cardinality(elm_vendor_files) = 0 THEN Ok(None)
       ELSE Err("Multiple elm-vendor.{json,toml} found")

(***************************************************************************)
(* The vendor machine: CmdContext::vendor, one step per check, per loaded  *)
(* package and per reconciled group                                        *)
(***************************************************************************)
\* the vendored lists of a descriptor
VendoredLists == UNION {[1..n -> Packages] : n \in 0..MaxVendored}

\* anyhow errors of the run
Message(text) == [kind |-> "Message", errors |-> <<text>>]
MultiError(errors) == [kind |-> "MultiError", errors |-> errors]

RunIdle ==
    [pc |-> "idle", phase |-> "checks", committed |-> "", files |-> {}, main_deps |-> <<>>,
     source_dirs |-> <<>>, vendored |-> <<>>, manifests |-> <<>>,
     i |-> 0, acc |-> TwpNew, loads |-> <<>>, results |-> <<>>,
     dependencies |-> <<>>, order |-> <<>>, collapsed |-> <<>>,
     merged |-> None, ret |-> None, shown |-> None]

RunInit == run = [RunIdle EXCEPT !.pc = "start"]

RunFails(error) == [run EXCEPT !.pc = "done", !.ret = Some(Err(error))]

\* check_if_elm_json_is_commited and ensure!(is_committed, ...)
CheckCommitted ==
    /\ run.pc = "start"
    /\ \E status \in {"CURRENT", "WT_MODIFIED", "error"} :
        run' = IF status = "error"
               THEN [RunFails(Message("git")) EXCEPT !.committed = status]
               ELSE IF status # "CURRENT"
               THEN [RunFails(Message("elm.json is not committed!"))
                        EXCEPT !.committed = status]
               ELSE [run EXCEPT !.pc = "find", !.committed = status]
    /\ UNCHANGED <<dom, prs, twp, col, ini>>

\* find_elm_vendor_json()?.context("you must run elm-vendor init first")?
FindDescriptor ==
    /\ run.pc = "find"
    /\ \E files \in SUBSET DescriptorFileNames :
        LET found == find_elm_vendor_json(files)
        IN run' = IF ~found.ok
                  THEN [RunFails(Message(found.val)) EXCEPT !.files = files]
                  ELSE IF found.val = None
                  THEN [RunFails(Message("you must run elm-vendor init first"))
                            EXCEPT !.files = files]
                  ELSE [run EXCEPT !.pc = "read", !.files = files]
    /\ UNCHANGED <<dom, prs, twp, col, ini>>

\* the descriptor is opened and deserialized: every literal of
\* main-dependencies is parsed as a DependencyVersion
ReadDescriptor ==
    /\ run.pc = "read"
    /\ \/ run' = RunFails(Message("serde"))
       \/ \E main \in DepMaps(MainTexts), vendored \in VendoredLists :
            LET from_reader(parsed) ==
                    IF \E d \in DOMAIN parsed : ~parsed[d].ok
                    THEN RunFails(Message("serde"))
                    ELSE [run EXCEPT !.pc = "load", !.phase = "load",
                                     !.main_deps = [d \in DOMAIN parsed |-> parsed[d].val],
                                     !.source_dirs = <<<<"src">>>>,
                                     !.vendored = vendored,
                                     !.i = 1, !.acc = TwpNew]
            IN run' = from_reader(ParsedDeps("package", main))
    /\ UNCHANGED <<dom, prs, twp, col, ini>>

\* one call of the closure of the load phase: load_package_for(vendored_pkg)?
\* and the package's source directories and dependencies
LoadPackage ==
    /\ run.pc = "load"
    /\ TwpHasNext(run.vendored, run.i, run.acc)
    /\ LET vendored_pkg == run.vendored[run.i] IN
       \E manifest \in Manifests :
        /\ vendored_pkg \in DOMAIN run.manifests => manifest = run.manifests[vendored_pkg]
        /\ LET closure(package_json) ==
                   IF ~package_json.ok THEN package_json
                   ELSE Ok([source_dirs |->
                               contextualize_source_dirs(package_json.val, vendored_pkg),
                            dependencies |->
                               dependencies_with_source_name(package_json.val, vendored_pkg)])
               called(r) ==
                   [run EXCEPT
                      !.manifests = [q \in DOMAIN run.manifests \cup {vendored_pkg} |->
                                        IF q = vendored_pkg THEN manifest ELSE run.manifests[q]],
                      !.i = run.i + 1,
                      !.acc = TwpPush(run.acc, r),
                      !.loads = Append(run.loads, [package |-> vendored_pkg, ok |-> r.ok])]
           IN run' = called(closure(load_package_for(manifest, vendored_pkg)))
    /\ UNCHANGED <<dom, prs, twp, col, ini>>

RECURSIVE GroupAll(_, _)
\* for (vendored_pkg_source_dirs, vendored_pkg_deps) in results { ... }
GroupAll(results, state) ==
    IF results = <<>> THEN state
    ELSE GroupAll(Tail(results),
                  [source_dirs |-> state.source_dirs \o Head(results).source_dirs,
                   dependencies |-> coalesce_dependencies(Head(results).dependencies,
                                                          state.dependencies)])

\* the main dependencies, each under the source "main package (elm-vendor.json)"
MainDependencies(main_deps) ==
    [d \in DOMAIN main_deps |-> [s \in {MainSource} |-> main_deps[d]]]

\* the load phase is over: .map_err(MultiError::from)? and, on success, the
\* group phase, which ends with the map that the reconcile phase iterates
LoadDone ==
    /\ run.pc = "load"
    /\ ~TwpHasNext(run.vendored, run.i, run.acc)
    /\ LET results == TwpFinish(run.acc) IN
       IF ~results.ok
       THEN run' = RunFails(MultiError(results.val))
       ELSE LET grouped == GroupAll(results.val,
                                    [source_dirs |-> run.source_dirs,
                                     dependencies |-> MainDependencies(run.main_deps)])
            IN \E order \in Orderings(DOMAIN grouped.dependencies) :
                run' = [run EXCEPT !.pc = "reconcile", !.phase = "reconcile",
                                   !.results = results.val,
                                   !.source_dirs = grouped.source_dirs,
                                   !.dependencies = grouped.dependencies,
                                   !.order = order,
                                   !.i = 1, !.acc = TwpNew]
    /\ UNCHANGED <<dom, prs, twp, col, ini>>

\* one call of the closure of the reconcile phase:
\* collapse_sources(sources).with_name(&dependency)?
ReconcileGroup ==
    /\ run.pc = "reconcile"
    /\ TwpHasNext(run.order, run.i, run.acc)
    /\ LET dependency == run.order[run.i]
           sources == run.dependencies[dependency]
       IN \E values \in Orderings(DOMAIN sources) :
            LET with_name(merged_version) ==
                    IF merged_version.ok
                    THEN Ok(<<dependency, merged_version.val>>)
                    ELSE Err(ConflictingDependency(dependency, merged_version.val))
                called(collapsed) ==
                    IF collapsed.panicked
                    THEN [run EXCEPT !.pc = "panicked",
                                     !.collapsed = Append(run.collapsed, dependency)]
                    ELSE [run EXCEPT !.i = run.i + 1,
                                     !.acc = TwpPush(run.acc, with_name(collapsed.val)),
                                     !.collapsed = Append(run.collapsed, dependency)]
            IN run' = called(collapse_sources(sources, values))
    /\ UNCHANGED <<dom, prs, twp, col, ini>>

\* .map_err(MultiError::from).map(HashMap::from_iter)? and Ok(())
ReconcileDone ==
    /\ run.pc = "reconcile"
    /\ ~TwpHasNext(run.order, run.i, run.acc)
    /\ LET versions == TwpFinish(run.acc) IN
       run' = IF ~versions.ok
              THEN RunFails(MultiError(versions.val))
              ELSE [run EXCEPT
                      !.pc = "done",
                      !.merged = Some([d \in {versions.val[k][1] : k \in 1..Len(versions.val)} |->
                                        LET k == CHOOSE k \in 1..Len(versions.val) :
                                                    versions.val[k][1] = d
                                        IN versions.val[k][2]]),
                      !.ret = Some(Ok(<<>>))]
    /\ UNCHANGED <<dom, prs, twp, col, ini>>

(***************************************************************************)
(* The init machine: CmdContext::init called again and again on one root   *)
(***************************************************************************)
\* the most calls of init on one root
MaxInits == 3

\* the fields of an elm.json that the program has no name for
OtherFields == {<<>>, [name |-> "author/project"]}

\* the elm.json of the root: absent, not an ElmJson, or an ElmJson of
\* application or package kind
RootManifests ==
    {NoManifest("NotFound"), NoManifest("Invalid")}
    \cup [state : {"Ok"}, kind : {"application"}, deps : DepMaps(ApplicationTexts),
          source_dirs : {<<"src">>}, other_fields : OtherFields]
    \cup [state : {"Ok"}, kind : {"package"}, deps : DepMaps(InitPackageTexts),
          source_dirs : {<<"src">>}, other_fields : OtherFields]

\* struct ElmVendor built by init from the normalized elm.json
ElmVendor(elm_json) ==
    [main_deps |-> elm_json.dependencies, source_dirs |-> elm_json.source_dirs,
     vendored |-> <<>>, kind |-> elm_json.kind, extras |-> elm_json.other_fields]

\* serde_json::to_writer_pretty(&elm_vendor): the text of the descriptor;
\* DependencyVersion is serialized through its Display
to_writer_pretty(elm_vendor) ==
    [main_deps |-> [d \in DOMAIN elm_vendor.main_deps |->
                      DisplayDependencyVersion(elm_vendor.main_deps[d])],
     source_dirs |-> elm_vendor.source_dirs, vendored |-> elm_vendor.vendored,
     kind |-> elm_vendor.kind, extras |-> elm_vendor.extras]

\* the root directory: the names in it, and the contents of elm.json and of
\* elm-vendor.json (None while there is none)
IniIdle == [files |-> {}, elm_json |-> NoManifest("NotFound"), descriptor |-> None, calls |-> <<>>]

IniInit ==
    \E manifest \in RootManifests :
        ini = [files |-> IF manifest.state = "NotFound" THEN {} ELSE {"elm.json"},
               elm_json |-> manifest, descriptor |-> None, calls |-> <<>>]

\* the root after a call that fails or that the user declines
Returns(yes, ret) ==
    [ini EXCEPT !.calls = Append(@, [yes |-> yes, ret |-> ret, files |-> ini.files,
                                      elm_json |-> ini.elm_json,
                                      descriptor |-> ini.descriptor])]

\* the root after a call that wrote the descriptor
Creates(yes, text) ==
    [ini EXCEPT !.files = @ \cup {"elm-vendor.json"},
                !.descriptor = Some(text),
                !.calls = Append(@, [yes |-> yes, ret |-> Ok(<<>>),
                                     files |-> ini.files \cup {"elm-vendor.json"},
                                     elm_json |-> ini.elm_json,
                                     descriptor |-> Some(text)])]

\* CmdContext::init; without yes the user is asked and may decline
init ==
    /\ Len(ini.calls) < MaxInits
    /\ \E yes \in BOOLEAN, confirmed \in BOOLEAN :
        LET found == find_elm_vendor_json(ini.files)
            from_reader(json) ==
                IF \E d \in DOMAIN json.dependencies : ~json.dependencies[d].ok
                THEN Returns(yes, Err(Message("serde")))
                ELSE Creates(yes, to_writer_pretty(ElmVendor(NormalizedElmJson(json))))
        IN ini' = IF ~yes /\ ~confirmed THEN Returns(yes, Ok(<<>>))
                  ELSE IF ~found.ok THEN Returns(yes, Err(Message(found.val)))
                  ELSE IF found.val # None
                  THEN Returns(yes, Err(Message("An elm-vendor file already exists!")))
                  ELSE IF ini.elm_json.state = "NotFound"
                  THEN Returns(yes, Err(Message("io")))
                  ELSE IF ini.elm_json.state # "Ok"
                  THEN Returns(yes, Err(Message("serde")))
                  ELSE from_reader(ElmJson(ini.elm_json))
    /\ UNCHANGED <<dom, prs, twp, col, run>>

(***************************************************************************)
(* Specifications                                                          *)
(***************************************************************************)

\* the version domain on its own
DomNext == Predecessor \/ Successor \/ SuccessorOfPredecessor \/ PredecessorOfSuccessor
InitDomain == ini = IniIdle /\ prs = PrsIdle /\ twp = TwpIdle /\ col = ColIdle /\ run = RunIdle /\ DomInit
SpecDomain == InitDomain /\ [][DomNext]_vars

\* the parser on its own
PrsNext == Parse \/ Display \/ Reparse
InitParser == ini = IniIdle /\ dom = DomIdle /\ twp = TwpIdle /\ col = ColIdle /\ run = RunIdle /\ PrsInit
SpecParser == InitParser /\ [][PrsNext]_vars

\* impl Display for VendorChangeError: the lines written for one error; a
\* conflict writes one line per entry of its map, in the order the map's
\* iterator yields them (order), between a heading and a closing line
DisplayVendorChangeError(error, order) ==
    IF error.kind = "ConflictingDependency"
    THEN <<[line |-> "conflicts for", name |-> error.name]>>
         \o [k \in 1..Len(order) |->
               [line |-> "wanted", name |-> order[k],
                version |-> DisplayDependencyVersion(error.versions[order[k]])]]
         \o <<[line |-> "These need to be identical"]>>
    ELSE <<[line |-> error.kind, name |-> error.name]>>

\* the orders in which the iterator of an error's map can yield its entries
IterationOrders(error) ==
    IF error.kind = "ConflictingDependency" THEN Orderings(DOMAIN error.versions)
    ELSE {<<>>}

\* impl Display for MultiError: a heading, then every error in the order of
\* the vector
DisplayMultiError(errors, orders) ==
    <<<<[line |-> "Multiple errors occurred: "]>>>>
    \o [k \in 1..Len(errors) |-> DisplayVendorChangeError(errors[k], orders[k])]

\* the caller prints the errors a failed run returned
DisplayErrors ==
    /\ run.pc = "done"
    /\ run.shown = None
    /\ ~Unwrap(run.ret).ok
    /\ Unwrap(run.ret).val.kind = "MultiError"
    /\ LET errors == Unwrap(run.ret).val.errors IN
       \E orders \in {o \in [1..Len(errors) -> UNION {IterationOrders(errors[k]) : k \in 1..Len(errors)}] :
                        \A k \in 1..Len(errors) : o[k] \in IterationOrders(errors[k])} :
           run' = [run EXCEPT !.shown = Some(DisplayMultiError(errors, orders))]
    /\ UNCHANGED <<dom, prs, twp, col, ini>>

\* a vendor run and the printing of its errors
Next ==
    \/ CheckCommitted \/ FindDescriptor \/ ReadDescriptor
    \/ LoadPackage \/ LoadDone \/ ReconcileGroup \/ ReconcileDone
    \/ DisplayErrors
Init == ini = IniIdle /\ dom = DomIdle /\ prs = PrsIdle /\ twp = TwpIdle /\ col = ColIdle /\ RunInit
Spec == Init /\ [][Next]_vars

\* reconciliation of one group on its own
ColNext == Collapse
InitCollapse == ini = IniIdle /\ dom = DomIdle /\ prs = PrsIdle /\ twp = TwpIdle /\ run = RunIdle /\ ColInit
SpecCollapse == InitCollapse /\ [][ColNext]_vars

\* the aggregator on its own
TwpNext == TwpCall \/ TwpReturn
InitAggregator == ini = IniIdle /\ dom = DomIdle /\ prs = PrsIdle /\ col = ColIdle /\ run = RunIdle /\ TwpInit
SpecAggregator == InitAggregator /\ [][TwpNext]_vars

\* init called again and again on one root
IniNext == init
InitInit == dom = DomIdle /\ prs = PrsIdle /\ twp = TwpIdle /\ col = ColIdle /\ run = RunIdle /\ IniInit
SpecInit == InitInit /\ [][IniNext]_vars

(***************************************************************************)
(* Properties of the aggregator                                            *)
(***************************************************************************)
CallFailed(c) == ~c.ok

\* the failures among the calls made, in call order
FailuresOf(calls) ==
    LET f == SelectSeq(calls, CallFailed)
    IN [k \in 1..Len(f) |-> <<"e", f[k].item>>]

\* C2: try_with_progress returns Ok with the successes of all items in their
\* order when no call failed, and otherwise Err with exactly the failures of
\* the failing items in their order; the result never mixes the two, never
\* carries a success beside a failure and never omits a failure.
AggregatorAllOrNothing ==
    twp.ret # None =>
        LET r == Unwrap(twp.ret)
            fails == FailuresOf(twp.calls)
        IN IF fails = <<>>
           THEN r.ok /\ r.val = [k \in 1..Len(twp.items) |-> <<"u", twp.items[k]>>]
           ELSE ~r.ok /\ r.val = fails

\* five items of which the second and the fourth failed
AggregatorTwoFailuresReturned ==
    /\ twp.ret # None
    /\ Len(twp.items) = 5
    /\ ~twp.calls[2].ok /\ ~twp.calls[4].ok
    /\ twp.calls[1].ok /\ twp.calls[3].ok /\ twp.calls[5].ok
    /\ Len(Unwrap(twp.ret).val) = 2

\* C3: the per-item operation is called once per item, in sequence order,
\* also after earlier calls failed: the calls made are always the items up to
\* the loop position, and the result is returned only after all n calls.
AggregatorNeverShortCircuits ==
    /\ Len(twp.calls) <= Len(twp.items)
    /\ \A k \in 1..Len(twp.calls) :
        twp.calls[k].item = twp.items[k] /\ twp.calls[k].at = k
    /\ twp.ret = None /\ twp.i >= 1 => Len(twp.calls) = twp.i - 1
    /\ twp.ret # None => Len(twp.calls) = Len(twp.items)

\* a call was made after an earlier call had failed
AggregatorCalledAfterFailure ==
    /\ twp.ret # None
    /\ Len(twp.calls) >= 3
    /\ ~twp.calls[1].ok
    /\ twp.calls[3].ok

(***************************************************************************)
(* Properties of the parser                                                *)
(***************************************************************************)
\* the constraint a written text stands for
WrittenConstraint(w) ==
    IF w.kind = "version" THEN SpecificVersionOf(w.lower)
    ELSE VersionRangeOf(VersionRange(w.lower, w.lower_relation,
                                     w.higher_relation, w.higher))

\* C6: a text that matches the range grammar parses to the Range variant
\* holding the two written versions and the two written relations ("<" is
\* strictly-less, "<=" is less-or-equal), never to ExactVersion of the
\* leading version.
RangeTextParsesToRange ==
    (prs.st = "parsed" /\ prs.written.kind = "range" /\ prs.written.tail = <<>>) =>
        /\ Unwrap(prs.first).ok
        /\ Unwrap(prs.first).val = WrittenConstraint(prs.written)

\* C7: for a text that matches the constraint grammar the first parse
\* succeeds, and parsing the displayed result succeeds and gives the same
\* constraint as the first parse.
ParseDisplayRoundTrip ==
    prs.written.tail = <<>> =>
        /\ prs.st = "parsed" => Unwrap(prs.first).ok
        /\ prs.st = "reparsed" =>
            /\ Unwrap(prs.second).ok
            /\ Unwrap(prs.second).val = Unwrap(prs.first).val

(***************************************************************************)
(* Properties of reconciliation                                            *)
(***************************************************************************)
\* a version satisfies a constraint
Satisfies(v, d) ==
    IF d.kind = "SpecificVersion" THEN v = d.ver
    ELSE /\ IF d.range.lower_relation = "LTE" THEN SemVerLe(d.range.lower, v)
            ELSE SemVerLt(d.range.lower, v)
         /\ IF d.range.higher_relation = "LTE" THEN SemVerLe(v, d.range.higher)
            ELSE SemVerLt(v, d.range.higher)

\* the versions some source of the group accepts
Covered(sources) ==
    {v \in SemVers : \E s \in DOMAIN sources : Satisfies(v, sources[s])}

\* the normalized union of the group's intervals is exactly one interval
OneInterval(sources) ==
    LET c == Covered(sources)
    IN /\ c # {}
       /\ \A a, b \in c : \A m \in SemVers :
            (SemVerLt(a, m) /\ SemVerLt(m, b)) => m \in c

\* C1: collapse_sources returns success with the single merged constraint
\* if and only if the normalized union of the sources' intervals is exactly
\* one interval, and in every other case it returns a conflict carrying the
\* input entries unmodified.
CollapseDecidesByIntervalCount ==
    col.st = "collapsed" =>
        LET r == Unwrap(col.ret) IN
        /\ ~r.panicked
        /\ IF OneInterval(col.sources)
           THEN /\ r.val.ok
                /\ {v \in SemVers : Satisfies(v, r.val.val)} = Covered(col.sources)
           ELSE /\ ~r.val.ok
                /\ r.val.val = col.sources

(***************************************************************************)
(* Properties of the vendor run                                            *)
(***************************************************************************)
\* the error a load of this package yields, by the state of its elm.json
LoadErrorOf(package) ==
    LET state == run.manifests[package].state
    IN IF state = "NotFound" THEN NoElmJsonFound(package)
       ELSE IF state = "IoError" THEN IoError(package)
       ELSE SerdeError(package)

LoadFailed(l) == ~l.ok

\* the errors of the failing loads, in the order of the loads
LoadErrors ==
    LET f == SelectSeq(run.loads, LoadFailed)
    IN [k \in 1..Len(f) |-> LoadErrorOf(f[k].package)]

\* C4: the vendored packages are loaded one at a time in declared order,
\* also after an earlier load failed; once a load has failed the run ends in
\* failure carrying exactly one load error per failing entry of the list
\* (NoElmJsonFound for a missing elm.json), and neither the group phase nor
\* collapse_sources is ever executed.
LoadPhaseIsFailSoft ==
    /\ Len(run.loads) <= Len(run.vendored)
    /\ \A k \in 1..Len(run.loads) : run.loads[k].package = run.vendored[k]
    /\ run.pc # "load" => Len(run.loads) = Len(run.vendored)
    /\ (\E k \in 1..Len(run.loads) : ~run.loads[k].ok) =>
        /\ run.pc \in {"load", "done"}
        /\ run.dependencies = <<>>
        /\ run.collapsed = <<>>
        /\ run.merged = None
        /\ run.pc = "done" =>
            /\ ~Unwrap(run.ret).ok
            /\ Unwrap(run.ret).val = MultiError(LoadErrors)

\* a missing elm.json of the first of two packages: the second was loaded
\* all the same and the run failed with the one not-found error
LoadFailedThenLoaded ==
    /\ run.pc = "done"
    /\ Len(run.loads) = 2
    /\ ~run.loads[1].ok /\ run.loads[2].ok
    /\ Unwrap(run.ret).val = MultiError(<<NoElmJsonFound(run.vendored[1])>>)

\* the dependency names whose group does not reconcile
ConflictingNames ==
    {d \in DOMAIN run.dependencies : ~OneInterval(run.dependencies[d])}

\* C5: in the reconcile phase collapse_sources is applied to every group; if
\* every group reconciles, the phase yields a map with one constraint per
\* dependency name; if a group conflicts, the run fails with exactly one
\* ConflictingDependency per conflicting name, carrying the group's sources
\* and constraints, and no merged map is produced.
ReconcilePhaseIsFailSoft ==
    /\ run.pc # "panicked"
    /\ (run.pc = "done" /\ run.phase = "reconcile") =>
        /\ Len(run.collapsed) = Len(run.order)
        /\ \A k \in 1..Len(run.order) : run.collapsed[k] = run.order[k]
        /\ IF ConflictingNames = {}
           THEN /\ Unwrap(run.ret).ok
                /\ run.merged # None
                /\ DOMAIN Unwrap(run.merged) = DOMAIN run.dependencies
           ELSE /\ ~Unwrap(run.ret).ok
                /\ run.merged = None
                /\ LET errors == Unwrap(run.ret).val.errors IN
                   /\ Unwrap(run.ret).val.kind = "MultiError"
                   /\ Len(errors) = Cardinality(ConflictingNames)
                   /\ \A d \in ConflictingNames :
                        \E k \in 1..Len(errors) :
                            errors[k] = ConflictingDependency(d, run.dependencies[d])

(***************************************************************************)
(* Properties of the version domain                                        *)
(***************************************************************************)
\* C8: predecessor is none exactly at (0,0,0); otherwise it is the borrow
\* decrement, computed without any component underflowing, and it is the
\* greatest version strictly below the input in the lexicographic order.
PredecessorIsGreatestBelow ==
    dom.op = "predecessor" =>
        LET v == dom.v IN
        /\ dom.res = None <=> v = minimum
        /\ dom.res # None =>
            LET p == Unwrap(dom.res) IN
            /\ p \in SemVers
            /\ p = (IF v.patch > 0 THEN SemVer(v.major, v.minor, v.patch - 1)
                    ELSE IF v.minor > 0 THEN SemVer(v.major, v.minor - 1, MaxU)
                    ELSE SemVer(v.major - 1, MaxU, MaxU))
            /\ SemVerLt(p, v)
            /\ \A w \in SemVers : SemVerLt(w, v) => SemVerLe(w, p)

\* a predecessor that borrowed from minor and major
PredecessorBorrowedTwice ==
    /\ dom.op = "predecessor"
    /\ dom.v.patch = 0 /\ dom.v.minor = 0 /\ dom.v.major > 0
    /\ dom.res = Some(SemVer(dom.v.major - 1, MaxU, MaxU))

\* C9: successor is none exactly at (MAX,MAX,MAX); otherwise it is the carry
\* increment, computed without any component overflowing, and it is the
\* least version strictly above the input in the lexicographic order.
SuccessorIsLeastAbove ==
    dom.op = "successor" =>
        LET v == dom.v IN
        /\ dom.res = None <=> v = maximum
        /\ dom.res # None =>
            LET n == Unwrap(dom.res) IN
            /\ n \in SemVers
            /\ n = (IF v.patch < MaxU THEN SemVer(v.major, v.minor, v.patch + 1)
                    ELSE IF v.minor < MaxU THEN SemVer(v.major, v.minor + 1, 0)
                    ELSE SemVer(v.major + 1, 0, 0))
            /\ SemVerLt(v, n)
            /\ \A w \in SemVers : SemVerLt(v, w) => SemVerLe(n, w)

\* a successor that carried into minor and major
SuccessorCarriedTwice ==
    /\ dom.op = "successor"
    /\ dom.v.patch = MaxU /\ dom.v.minor = MaxU /\ dom.v.major < MaxU
    /\ dom.res = Some(SemVer(dom.v.major + 1, 0, 0))

\* C10: for every version but the minimum predecessor succeeds and the
\* successor of the result is the version again; for every version but the
\* maximum successor succeeds and the predecessor of the result is the
\* version again.
SteppingRoundTrip ==
    /\ (dom.op = "predecessor" /\ dom.v # minimum) => IsSome(dom.res)
    /\ (dom.op = "successor" /\ dom.v # maximum) => IsSome(dom.res)
    /\ dom.op \in {"successor_of_predecessor", "predecessor_of_successor"} =>
        dom.back = Some(dom.v)

\* a round trip over a borrow: the successor of the predecessor of x.y.0
SteppingRoundTripOverBorrow ==
    /\ dom.op = "successor_of_predecessor"
    /\ dom.v.patch = 0
    /\ dom.v # minimum
    /\ dom.back = Some(dom.v)


(***************************************************************************)
(* Properties of collapse_sources on groups of equal, disjoint and         *)
(* overlapping constraints                                                 *)
(***************************************************************************)
\* the call returned this constraint; the call returned this conflict
ReturnsOk(ret, merged) == ~ret.panicked /\ ret.val.ok /\ ret.val.val = merged
ReturnsErr(ret, conflict) == ~ret.panicked /\ ~ret.val.ok /\ ret.val.val = conflict

\* every source of the group declares the same constraint
AllIdentical(sources) ==
    \A s, t \in DOMAIN sources : sources[s] = sources[t]

\* some version satisfies the constraint
Satisfiable(c) == \E v \in SemVers : Satisfies(v, c)

\* C11: if every source of a group supplies the same constraint (an exact
\* version, or a range with any combination of "<" and "<=" bounds),
\* reconciliation succeeds and returns that constraint unchanged: same
\* variant, same versions, same relations.
IdenticalConstraintsConverge ==
    (/\ col.st = "collapsed"
     /\ AllIdentical(col.sources)
     /\ Satisfiable(col.sources[MainSource])) =>
        ReturnsOk(Unwrap(col.ret), col.sources[MainSource])

\* no version satisfies both constraints
ShareNoVersion(c, d) == ~\E v \in SemVers : Satisfies(v, c) /\ Satisfies(v, d)

\* C12: two sources whose constraints share no version reconcile to a
\* conflict that lists both sources with their constraints as declared.
DisjointSourcesConflict ==
    (/\ col.st = "collapsed"
     /\ DOMAIN col.sources = {MainSource, "a"}
     /\ Satisfiable(col.sources[MainSource])
     /\ Satisfiable(col.sources["a"])
     /\ ShareNoVersion(col.sources[MainSource], col.sources["a"])) =>
        ReturnsErr(Unwrap(col.ret), col.sources)

\* the versions of an interval
RangeVersions(range) ==
    {v \in SemVers : /\ IF range.start.kind = "Included" THEN SemVerLe(range.start.val, v)
                        ELSE SemVerLt(range.start.val, v)
                     /\ IF range.end.kind = "Included" THEN SemVerLe(v, range.end.val)
                        ELSE SemVerLt(v, range.end.val)}

\* the stored intervals are in ascending order, no two of them overlap or
\* touch, and together they hold the versions of the sources
IsNormalizedUnionOf(slice, sources) ==
    /\ \A i, j \in 1..Len(slice) :
        i < j => /\ SemVerLt(RangeFirst(slice[i]), RangeFirst(slice[j]))
                 /\ Separated(slice[i], slice[j])
    /\ \A i \in 1..Len(slice) : RangeVersions(slice[i]) # {}
    /\ UNION {RangeVersions(slice[i]) : i \in 1..Len(slice)} = Covered(sources)

\* the versions from the least to the greatest version of a set
HullOf(versions) ==
    {m \in SemVers : \E a, b \in versions : SemVerLe(a, m) /\ SemVerLe(m, b)}

\* C13: the union that reconciliation takes merges to a fixpoint: the
\* intervals of the result are ordered, no two of them overlap or are
\* adjacent, and they cover the versions of the inputs; so two overlapping
\* constraints reconcile to their convex hull, and a chain of three, the
\* first and the last disjoint, to one interval.
UnionMergesToFixpoint ==
    col.st = "collapsed" =>
        /\ \A order \in Orderings(DOMAIN col.sources) :
            LET conv == SourceRanges(col.sources, order)
            IN (\A k \in 1..Len(conv) : ~conv[k].panicked) =>
                IsNormalizedUnionOf(
                    as_slice(RangesCollect({}, [k \in 1..Len(conv) |-> conv[k].val])),
                    col.sources)
        /\ (/\ DOMAIN col.sources = {MainSource, "a"}
            /\ ~ShareNoVersion(col.sources[MainSource], col.sources["a"])) =>
                /\ ~Unwrap(col.ret).panicked
                /\ Unwrap(col.ret).val.ok
                /\ {v \in SemVers : Satisfies(v, Unwrap(col.ret).val.val)}
                      = HullOf(Covered(col.sources))
        /\ (/\ DOMAIN col.sources = {MainSource, "a", "b"}
            /\ ~ShareNoVersion(col.sources[MainSource], col.sources["a"])
            /\ ~ShareNoVersion(col.sources["a"], col.sources["b"])
            /\ ShareNoVersion(col.sources[MainSource], col.sources["b"])) =>
                /\ ~Unwrap(col.ret).panicked
                /\ Unwrap(col.ret).val.ok

\* C15: collapse_sources merges a group into one constraint only if its
\* constraints are identical: when two sources declare different
\* constraints the result is the conflict of the group, never a merged
\* constraint.
MergesOnlyIdentical ==
    (col.st = "collapsed" /\ ~AllIdentical(col.sources)) =>
        ReturnsErr(Unwrap(col.ret), col.sources)

TrailingCharactersRejected ==
    (prs.st = "parsed" /\ prs.written.tail # <<>>) => ~Unwrap(prs.first).ok


(***************************************************************************)
(* Properties of the checks before the load phase                          *)
(***************************************************************************)
\* the run has failed without loading or reconciling anything
FailedBeforeLoading ==
    /\ run.pc = "done"
    /\ ~Unwrap(run.ret).ok
    /\ run.phase = "checks"
    /\ run.loads = <<>>
    /\ run.collapsed = <<>>

DeclaredBy(k) == run.results[k].dependencies

\* C19: after the group phase, for every dependency name and every source
\* that declares it (the main project or an entry of the vendored list),
\* the group of the name holds the source with the constraint it declared,
\* and the group holds nothing else: no source's constraint is dropped or
\* overwritten by another's, also when two sources carry the same
\* identifier.
GroupsHoldEveryDeclaration ==
    run.phase = "reconcile" =>
        /\ \A d \in DOMAIN run.main_deps :
            /\ d \in DOMAIN run.dependencies
            /\ MainSource \in DOMAIN run.dependencies[d]
            /\ run.dependencies[d][MainSource] = run.main_deps[d]
        /\ \A k \in 1..Len(run.vendored) : \A dep \in DeclaredBy(k) :
            /\ dep.source = run.vendored[k]
            /\ dep.dependency \in DOMAIN run.dependencies
            /\ dep.source \in DOMAIN run.dependencies[dep.dependency]
            /\ run.dependencies[dep.dependency][dep.source] = dep.version
        /\ \A d \in DOMAIN run.dependencies : \A s \in DOMAIN run.dependencies[d] :
            \/ s = MainSource /\ d \in DOMAIN run.main_deps
            \/ \E k \in 1..Len(run.vendored) : \E dep \in DeclaredBy(k) :
                dep.source = s /\ dep.dependency = d


\* the sources that declare the dependency, in the order the run discovers
\* them: the main project first, then the vendored entries as listed
RECURSIVE DiscoveryOrder(_, _)
DiscoveryOrder(dependency, k) ==
    IF k > Len(run.vendored) THEN <<>>
    ELSE (IF \E t \in DeclaredBy(k) : t.dependency = dependency THEN <<run.vendored[k]>> ELSE <<>>)
         \o DiscoveryOrder(dependency, k + 1)

SourcesInDiscoveryOrder(dependency) ==
    (IF dependency \in DOMAIN run.main_deps THEN <<MainSource>> ELSE <<>>)
    \o DiscoveryOrder(dependency, 1)

\* the sources named by the "wanted" lines of one printed error, in order
WantedSources(lines) ==
    LET wanted == SelectSeq(lines, LAMBDA l : l.line = "wanted")
    IN [k \in 1..Len(wanted) |-> wanted[k].name]

\* C14: the source lines of every reported conflict are printed in the order
\* the sources were discovered: the main project first, then the vendored
\* entries in the order the descriptor lists them
ConflictLinesInDiscoveryOrder ==
    (run.shown # None /\ run.phase = "reconcile") =>
        \A k \in 1..Len(Unwrap(run.ret).val.errors) :
            WantedSources(Unwrap(run.shown)[k + 1]) =
                SourcesInDiscoveryOrder(Unwrap(run.ret).val.errors[k].name)


(***************************************************************************)
(* Properties of init                                                      *)
(***************************************************************************)
\* the descriptor that holds what the elm.json of the root declares
DescriptorOf(elm_json) ==
    [main_deps |-> elm_json.deps, source_dirs |-> elm_json.source_dirs,
     vendored |-> <<>>, kind |-> elm_json.kind, extras |-> elm_json.other_fields]

\* the root holds a valid elm.json and every call so far was made with yes
ValidRootAndYes ==
    /\ ini.elm_json.state = "Ok"
    /\ \A k \in 1..Len(ini.calls) : ini.calls[k].yes

\* C18: on a root with a valid elm.json and no descriptor, after any number
\* of init calls with yes at most one descriptor file exists; the first call
\* succeeds and leaves elm-vendor.json holding the dependencies, source
\* directories, kind and other fields of elm.json and an empty vendored list;
\* every later call fails with "already exists" and leaves the descriptor and
\* elm.json as they were.
InitCreatesOneDescriptor ==
    ValidRootAndYes =>
        /\ Cardinality(ini.files \cap DescriptorFileNames) <= 1
        /\ \A k \in 1..Len(ini.calls) :
            LET call == ini.calls[k] IN
            /\ call.elm_json = ini.elm_json
            /\ call.descriptor = Some(DescriptorOf(ini.elm_json))
            /\ call.files = {"elm.json", "elm-vendor.json"}
            /\ IF k = 1 THEN call.ret = Ok(<<>>)
               ELSE call.ret = Err(Message("An elm-vendor file already exists!"))


(***************************************************************************)
(* Properties of the conversions inside collapse_sources                   *)
(***************************************************************************)
\* C21: collapse_sources never panics: for every group that is not empty,
\* with strict or inclusive bounds, bounds at the least or the greatest
\* version, or a lower bound above the higher one, the call returns; neither
\* the unwrap of the conversion back, nor its unreachable!() branch, nor the
\* assertion of an interval's bounds is reached.
CollapseNeverPanics ==
    col.st = "collapsed" => ~Unwrap(col.ret).panicked


\* a range whose lower bound is above its higher bound
Inverted(c) == c.kind = "VersionRange" /\ SemVerLt(c.range.higher, c.range.lower)

\* the literal of the constraint is refused by the parser
RejectedAtParseTime(c) == ~DependencyVersionFromStr(DisplayDependencyVersion(c)).ok

\* C22: a dependency for which some source declares a range whose lower
\* bound is above its higher bound is never reconciled: unless the parser
\* refuses the literal, collapse_sources reports the conflict of the group,
\* whatever the other sources declare; and a constraint that is returned has
\* its lower bound at or below its higher bound.
InvertedRangesNeverReconcile ==
    col.st = "collapsed" =>
        /\ (\E k \in DOMAIN col.sources :
                Inverted(col.sources[k]) /\ ~RejectedAtParseTime(col.sources[k]))
            => ReturnsErr(Unwrap(col.ret), col.sources)
        /\ (~Unwrap(col.ret).panicked /\ Unwrap(col.ret).val.ok)
            => ~Inverted(Unwrap(col.ret).val.val)

====
